---- MODULE Spec2Model ----
(***************************************************************************)
(* Model of the Windows local-time backend of chrono:                      *)
(*   src/offset/local/windows.rs          (naive_to_local, Tm, yday)       *)
(*   src/offset/local/windows_sys/mod.rs  (WinFileTime, WinSystemTime,     *)
(*                                         WinTimeZoneInfo)                *)
(*                                                                         *)
(* 64-bit machine integers are sequences of four 16-bit limbs, least       *)
(* significant first, in two's complement; mathematical integers that may  *)
(* exceed 64 bits are sequences of six limbs.  A 32-bit word of a FILETIME *)
(* is a sequence of two limbs.                                             *)
(***************************************************************************)
EXTENDS Integers, Sequences, FiniteSets, TLC

----------------------------------------------------------------------------
(* Fixed-width integer arithmetic                                          *)

Limb == 2^16
HalfLimb == 2^15

Zeros(n) == [i \in 1..n |-> 0]

\* a non-negative machine-size number as an n-limb integer
FromNat(x, n) == [i \in 1..n |-> IF i = 1 THEN x % Limb
                                 ELSE IF i = 2 THEN x \div Limb ELSE 0]

RECURSIVE AddC(_, _, _, _)
AddC(a, b, i, c) ==
    IF i > Len(a) THEN <<>>
    ELSE LET s == a[i] + b[i] + c
         IN  <<s % Limb>> \o AddC(a, b, i + 1, s \div Limb)

\* wrapping addition, negation and subtraction modulo 2^(16 * Len(a))
Add(a, b) == AddC(a, b, 1, 0)
Not(a) == [i \in 1..Len(a) |-> Limb - 1 - a[i]]
Neg(a) == AddC(Not(a), Zeros(Len(a)), 1, 1)
Sub(a, b) == AddC(a, Not(b), 1, 1)

IsNeg(a) == a[Len(a)] >= HalfLimb
RECURSIVE MulC(_, _, _, _)
MulC(a, m, i, c) ==
    IF i > Len(a) THEN <<>>
    ELSE LET p == a[i] * m + c
         IN  <<p % Limb>> \o MulC(a, m, i + 1, p \div Limb)

\* wrapping multiplication by a factor 0 <= m <= 2^15
MulSmall(a, m) == MulC(a, m, 1, 0)

\* wrapping multiplication by a factor 0 <= m < 2^30
Mul(a, m) == Add(MulSmall(MulSmall(a, m \div HalfLimb), HalfLimb),
                 MulSmall(a, m % HalfLimb))

\* one limb of an unsigned long division by 0 < d < 2^27, four bits at a
\* time, with incoming remainder r: <<quotient limb, remainder>>
DivLimb(x, d, r) ==
    LET c3 == r * 16 + (x \div 4096)
        c2 == (c3 % d) * 16 + ((x \div 256) % 16)
        c1 == (c2 % d) * 16 + ((x \div 16) % 16)
        c0 == (c1 % d) * 16 + (x % 16)
    IN  <<(c3 \div d) * 4096 + (c2 \div d) * 256 + (c1 \div d) * 16 + (c0 \div d),
          c0 % d>>

RECURSIVE DivC(_, _, _, _)
DivC(a, d, i, r) ==
    IF i = 0 THEN <<<<>>, r>>
    ELSE LET cur  == DivLimb(a[i], d, r)
             rest == DivC(a, d, i - 1, cur[2])
         IN  <<rest[1] \o <<cur[1]>>, rest[2]>>

\* unsigned division by 0 < d < 2^27: <<quotient, remainder>>
DivU(a, d) == DivC(a, d, Len(a), 0)

\* signed division truncating toward zero (Rust's `/` on i64)
DivTrunc(a, d) == IF IsNeg(a) THEN Neg(DivU(Neg(a), d)[1]) ELSE DivU(a, d)[1]

\* signed division rounding toward minus infinity
DivFloor(a, d) ==
    IF IsNeg(a)
    THEN LET qr == DivU(Neg(a), d)
         IN  IF qr[2] = 0 THEN Neg(qr[1]) ELSE Not(qr[1])
    ELSE DivU(a, d)[1]

\* sign extension to n limbs, truncation to n limbs
Ext(a, n) == [i \in 1..n |-> IF i <= Len(a) THEN a[i]
                             ELSE IF IsNeg(a) THEN Limb - 1 ELSE 0]
Trunc(a, n) == SubSeq(a, 1, n)

\* the value fits the signed width of n limbs
Fits(a, n) == Ext(Trunc(a, n), Len(a)) = a

\* a small non-negative integer back as a machine-size number
ToNat(a) == a[1] + a[2] * Limb

\* `x as i32`: the low 32 bits, signed
AsI32(a) == IF a[2] >= HalfLimb THEN (a[2] - Limb) * Limb + a[1] ELSE a[2] * Limb + a[1]

\* a signed integer of small magnitude as an n-limb integer
FromInt(x, n) == IF x < 0 THEN Neg(FromNat(-x, n)) ELSE FromNat(x, n)

\* Rust's `/` and `%` on i32: truncation toward zero
RustDiv(a, b) == IF a >= 0 THEN a \div b ELSE -((-a) \div b)
RustRem(a, b) == IF a >= 0 THEN a % b ELSE -((-a) % b)

\* `x as u16`
AsU16(x) == x % Limb

----------------------------------------------------------------------------
(* windows_sys/mod.rs: WinFileTime                                         *)

HECTONANOSECS_IN_SEC == 10000000

\* 11_644_473_600 * HECTONANOSECS_IN_SEC, as a 96-bit integer
\* (11_644_473_600 = 116_444_736 * 100 exceeds a machine-size number)
HECTONANOSEC_TO_UNIX_EPOCH ==
    Mul(Mul(FromNat(116444736, 6), 100), HECTONANOSECS_IN_SEC)

\* FILETIME { dwLowDateTime, dwHighDateTime } holding the 64-bit value t
FileTimeOf(t) == [dwLowDateTime |-> SubSeq(t, 1, 2), dwHighDateTime |-> SubSeq(t, 3, 4)]

\* the two words of the FILETIME taken in the wrong order
as_u64_swapped(ft) == ft.dwHighDateTime \o ft.dwLowDateTime

\* WinFileTime::as_u64: (dwHighDateTime << 32) | dwLowDateTime
as_u64(ft) == ft.dwLowDateTime \o ft.dwHighDateTime

\* WinFileTime::from_seconds.  `overflow` tells that the i64 arithmetic left
\* the i64 range: a build with overflow checks panics there, a build without
\* them continues with the wrapped value held by `ft`.
from_seconds(sec) ==
    LET prod == Mul(Ext(sec, 6), HECTONANOSECS_IN_SEC)
        sum  == Add(Ext(Trunc(prod, 4), 6), HECTONANOSEC_TO_UNIX_EPOCH)
    IN  [overflow |-> ~Fits(prod, 4) \/ ~Fits(sum, 4),
         ft       |-> FileTimeOf(Trunc(sum, 4))]

\* WinFileTime::as_unix_seconds, with the same `overflow` convention
as_unix_seconds(ft) ==
    LET t    == as_u64(ft)
        diff == Sub(Ext(t, 6), HECTONANOSEC_TO_UNIX_EPOCH)
    IN  [overflow |-> ~Fits(diff, 4),
         sec      |-> DivTrunc(Trunc(diff, 4), HECTONANOSECS_IN_SEC)]

----------------------------------------------------------------------------
(* windows.rs: yday                                                        *)

yday(year, month, day) ==
    LET leap == IF month > 2
                THEN (IF RustRem(year, 4) = 0 THEN 1 ELSE 2)
                ELSE 0
        july == IF month > 7 THEN 1 ELSE 0
    IN  (month - 1) * 30 + RustDiv(month, 2) + (day - 1) - leap + july

----------------------------------------------------------------------------
(* The Gregorian calendar, as the operating system and the external date   *)
(* type keep it                                                            *)

IsLeapYear(y) == (y % 4 = 0 /\ y % 100 # 0) \/ y % 400 = 0

DaysInMonth(y, m) ==
    IF m = 2 THEN (IF IsLeapYear(y) THEN 29 ELSE 28)
    ELSE IF m \in {4, 6, 9, 11} THEN 30 ELSE 31

\* days of the months of year y before month m
RECURSIVE DaysBeforeMonth(_, _)
DaysBeforeMonth(y, m) ==
    IF m <= 1 THEN 0 ELSE DaysBeforeMonth(y, m - 1) + DaysInMonth(y, m - 1)

\* the conventional zero-based day of the year
OrdinalDay0(y, m, day) == DaysBeforeMonth(y, m) + (day - 1)

\* days from 1601-01-01 (the FILETIME epoch) to the date y-m-day
DaysFrom1601(y, m, day) ==
    LET y0 == y - 1601
    IN  365 * y0 + (y0 \div 4) - (y0 \div 100) + (y0 \div 400) + OrdinalDay0(y, m, day)

Min(a, b) == IF a < b THEN a ELSE b

\* the date that lies n days after 1601-01-01: <<year, month, day>>
CivilFromDays(n) ==
    LET r400 == n % 146097
        n100 == Min(r400 \div 36524, 3)
        r100 == r400 - n100 * 36524
        r4   == r100 % 1461
        n1   == Min(r4 \div 365, 3)
        doy  == r4 - n1 * 365
        y    == 1601 + 400 * (n \div 146097) + 100 * n100 + 4 * (r100 \div 1461) + n1
        m    == CHOOSE k \in 1..12 :
                    /\ DaysBeforeMonth(y, k) <= doy
                    /\ doy < DaysBeforeMonth(y, k) + DaysInMonth(y, k)
    IN  <<y, m, doy - DaysBeforeMonth(y, m) + 1>>

\* a point of the time line without zone: <<days from 1601-01-01, second of day>>
Shift(pt, seconds) ==
    LET s == pt[2] + seconds
    IN  <<pt[1] + (s \div 86400), s % 86400>>

----------------------------------------------------------------------------
(* The operating system: SYSTEMTIME records, the FILETIME tick line and    *)
(* the configured time zone, as windows_sys/mod.rs calls them              *)

\* WinSystemTime::new
NewSystemTime ==
    [wYear |-> 0, wMonth |-> 0, wDayOfWeek |-> 0, wDay |-> 0,
     wHour |-> 0, wMinute |-> 0, wSecond |-> 0, wMilliseconds |-> 0]

\* the records SystemTimeToFileTime and the zone conversions accept
SystemTimeValid(st) ==
    /\ st.wYear \in 1601..30827
    /\ st.wMonth \in 1..12
    /\ st.wDay \in 1..DaysInMonth(st.wYear, st.wMonth)
    /\ st.wHour <= 23 /\ st.wMinute <= 59 /\ st.wSecond <= 59
    /\ st.wMilliseconds <= 999

SecondOfDay(st) == st.wHour * 3600 + st.wMinute * 60 + st.wSecond

\* a valid record as a point of the time line, and back
PointOf(st) == <<DaysFrom1601(st.wYear, st.wMonth, st.wDay), SecondOfDay(st)>>

SystemTimeAt(pt, ms) ==
    LET c == CivilFromDays(pt[1])
    IN  [wYear |-> c[1], wMonth |-> c[2], wDayOfWeek |-> (pt[1] + 1) % 7, wDay |-> c[3],
         wHour |-> pt[2] \div 3600, wMinute |-> (pt[2] \div 60) % 60,
         wSecond |-> pt[2] % 60, wMilliseconds |-> ms]

\* the 64-bit tick count of a valid record
TicksOf(st) ==
    LET secs == Add(Mul(FromNat(DaysFrom1601(st.wYear, st.wMonth, st.wDay), 4), 86400),
                    FromNat(SecondOfDay(st), 4))
    IN  Add(Mul(secs, HECTONANOSECS_IN_SEC), FromNat(st.wMilliseconds * 10000, 4))

\* SystemTimeToFileTime: [ok, ft]
SystemTimeToFileTime(st) ==
    IF SystemTimeValid(st)
    THEN [ok |-> TRUE, ft |-> FileTimeOf(TicksOf(st))]
    ELSE [ok |-> FALSE, ft |-> FileTimeOf(Zeros(4))]

\* FileTimeToSystemTime: [ok, st]; a tick count of 2^63 or more is rejected
FileTimeToSystemTime(ft) ==
    LET t    == as_u64(ft)
        secs == DivU(t, HECTONANOSECS_IN_SEC)
        days == DivU(secs[1], 86400)
    IN  IF IsNeg(t)
        THEN [ok |-> FALSE, st |-> NewSystemTime]
        ELSE [ok |-> TRUE,
              st |-> SystemTimeAt(<<ToNat(days[1]), days[2]>>, secs[2] \div 10000)]

\* TIME_ZONE_INFORMATION without daylight saving, k hours east of UTC
FixedZone(k) ==
    [Bias |-> -60 * k, StandardBias |-> 0, DaylightBias |-> 0,
     StandardDate |-> [wMonth |-> 0, wDay |-> 0, wHour |-> 0],
     DaylightDate |-> [wMonth |-> 0, wDay |-> 0, wHour |-> 0]]

\* TIME_ZONE_INFORMATION with daylight saving, k hours east of UTC in winter:
\* clocks go from 02:00 to 03:00 on 1 March and from 02:00 back to 01:00 on
\* 1 November
DstZone(k) ==
    [Bias |-> -60 * k, StandardBias |-> 0, DaylightBias |-> -60,
     StandardDate |-> [wMonth |-> 11, wDay |-> 1, wHour |-> 2],
     DaylightDate |-> [wMonth |-> 3, wDay |-> 1, wHour |-> 2]]

HasDst(z) == z.StandardDate.wMonth # 0

\* month, day and hour on one scale
Stamp(r) == (r.wMonth * 32 + r.wDay) * 24 + r.wHour

\* a record of standard local time lies in the daylight-saving period
DaylightAtStandard(z, st) ==
    /\ HasDst(z)
    /\ Stamp(z.DaylightDate) <= Stamp(st)
    /\ Stamp(st) < Stamp(z.StandardDate) - 1

\* wall-clock readings no instant has (skipped in spring) and readings two
\* instants have (repeated in autumn)
InGap(z, st) == HasDst(z) /\ Stamp(st) = Stamp(z.DaylightDate)
InOverlap(z, st) == HasDst(z) /\ Stamp(st) = Stamp(z.StandardDate) - 1

DaylightAtWallClock(z, st) ==
    /\ HasDst(z)
    /\ Stamp(z.DaylightDate) < Stamp(st)
    /\ Stamp(st) < Stamp(z.StandardDate) - 1

\* a record moved by a number of seconds: [ok, st]
ShiftSystemTime(st, seconds) ==
    LET moved == SystemTimeAt(Shift(PointOf(st), seconds), st.wMilliseconds)
    IN  [ok |-> SystemTimeValid(moved), st |-> moved]

\* SystemTimeToTzSpecificLocalTime(NULL, ..) under zone z: [ok, st]
SystemTimeToTzSpecificLocalTime(z, st) ==
    IF ~SystemTimeValid(st) THEN [ok |-> FALSE, st |-> NewSystemTime]
    ELSE LET std == ShiftSystemTime(st, -60 * (z.Bias + z.StandardBias))
         IN  IF std.ok /\ DaylightAtStandard(z, std.st)
             THEN ShiftSystemTime(st, -60 * (z.Bias + z.DaylightBias))
             ELSE std

\* TzSpecificLocalTimeToSystemTime(NULL, ..) under zone z: the set of [ok, st]
\* the call can give.  The call's answer for a skipped reading (failure, or a
\* conversion under either bias) and for a repeated reading (either bias) is
\* left to the operating system.
TzSpecificLocalTimeToSystemTime(z, st) ==
    LET std == ShiftSystemTime(st, 60 * (z.Bias + z.StandardBias))
        dst == ShiftSystemTime(st, 60 * (z.Bias + z.DaylightBias))
    IN  IF ~SystemTimeValid(st) THEN {[ok |-> FALSE, st |-> NewSystemTime]}
        ELSE IF InGap(z, st) THEN {[ok |-> FALSE, st |-> NewSystemTime], std, dst}
        ELSE IF InOverlap(z, st) THEN {std, dst}
        ELSE IF DaylightAtWallClock(z, st) THEN {dst}
        ELSE {std}

----------------------------------------------------------------------------
(* The date and time types of the crate that windows.rs builds its result  *)
(* from: NaiveDate, NaiveTime, FixedOffset, DateTime                       *)

\* NaiveDate::from_ymd_opt: [some, days]; month and day arrive `as u32`
from_ymd_opt(year, month, day) ==
    IF /\ month \in 1..12
       /\ day \in 1..DaysInMonth(year, month)
    THEN [some |-> TRUE, days |-> DaysFrom1601(year, month, day)]
    ELSE [some |-> FALSE, days |-> 0]

\* NaiveTime::from_hms_nano_opt: [some, secs, frac]; the arguments arrive
\* `as u32`, so a negative i32 is a number of 2^31 or more and is rejected;
\* a nanosecond count of 10^9 or more is a leap second
from_hms_nano_opt(hour, min, sec, nano) ==
    IF /\ hour \in 0..23 /\ min \in 0..59 /\ sec \in 0..59
       /\ nano \in 0..1999999999
    THEN [some |-> TRUE, secs |-> hour * 3600 + min * 60 + sec, frac |-> nano]
    ELSE [some |-> FALSE, secs |-> 0, frac |-> 0]

\* FixedOffset::east_opt: Some for less than a day either way
east_opt(secs) == -86400 < secs /\ secs < 86400

\* LocalResult<DateTime<Local>>; a panic of the call is kind "Panic"
NoResult == [kind |-> "Pending", utc |-> <<0, 0>>, frac |-> 0, offset |-> 0]
ResultNone == [NoResult EXCEPT !.kind = "None"]
ResultPanic == [NoResult EXCEPT !.kind = "Panic"]

\* DateTime::from_utc(date.and_time(time) - offset, offset)
from_utc(date, time, offset) ==
    [NoResult EXCEPT !.utc = Shift(<<date.days, time.secs>>, -offset),
                     !.frac = time.frac, !.offset = offset]

\* a wrong result kind for the date-time that tm_to_datetime built
Single_as_ambiguous(datetime) == [datetime EXCEPT !.kind = "Ambiguous"]

\* LocalResult::Single(datetime)
Single(datetime) == [datetime EXCEPT !.kind = "Single"]

\* the calendar fields an aware date-time shows: its local date and time
Fields(pt, frac) ==
    LET c == CivilFromDays(pt[1])
    IN  [year |-> c[1], month |-> c[2], day |-> c[3],
         hour |-> pt[2] \div 3600, minute |-> (pt[2] \div 60) % 60,
         second |-> pt[2] % 60, nanosecond |-> frac]

LocalFields(r) == Fields(Shift(r.utc, r.offset), r.frac)
UtcFields(r) == Fields(r.utc, r.frac)

----------------------------------------------------------------------------
(* windows.rs: Tm and tm_to_datetime                                       *)

\* #[derive(Default)]
DefaultTm ==
    [tm_sec |-> 0, tm_min |-> 0, tm_hour |-> 0, tm_mday |-> 0, tm_mon |-> 0,
     tm_year |-> 0, tm_wday |-> 0, tm_yday |-> 0, tm_isdst |-> 0,
     tm_utcoff |-> 0, tm_nsec |-> 0]

\* the Tm that naive_to_local builds from its input
NaiveTm(dt, isLocal) ==
    [tm_sec |-> dt.second, tm_min |-> dt.minute, tm_hour |-> dt.hour,
     tm_mday |-> dt.day, tm_mon |-> dt.month - 1, tm_year |-> dt.year - 1900,
     tm_wday |-> 0, tm_yday |-> 0, tm_isdst |-> -1,
     tm_utcoff |-> IF isLocal THEN 1 ELSE 0, tm_nsec |-> 0]

\* Tm::as_system_time
as_system_time(t) ==
    [wSecond |-> AsU16(t.tm_sec), wMinute |-> AsU16(t.tm_min),
     wHour |-> AsU16(t.tm_hour), wDay |-> AsU16(t.tm_mday),
     wDayOfWeek |-> AsU16(t.tm_wday), wMonth |-> AsU16(t.tm_mon + 1),
     wYear |-> AsU16(t.tm_year + 1900), wMilliseconds |-> 0]

\* Tm::update_from_system_time
update_from_system_time(t, sys) ==
    [t EXCEPT !.tm_sec = sys.wSecond, !.tm_min = sys.wMinute,
              !.tm_hour = sys.wHour, !.tm_mday = sys.wDay,
              !.tm_wday = sys.wDayOfWeek, !.tm_mon = sys.wMonth - 1,
              !.tm_year = sys.wYear - 1900,
              !.tm_yday = yday(sys.wYear - 1900, (sys.wMonth - 1) + 1, sys.wDay)]

\* tm_to_datetime
tm_to_datetime(t) ==
    LET n    == IF t.tm_sec >= 60
                THEN [t EXCEPT !.tm_nsec = @ + (t.tm_sec - 59) * 1000000000,
                               !.tm_sec = 59]
                ELSE t
        date == from_ymd_opt(n.tm_year + 1900, n.tm_mon + 1, n.tm_mday)
        time == from_hms_nano_opt(n.tm_hour, n.tm_min, n.tm_sec, n.tm_nsec)
    IN  IF ~date.some THEN ResultPanic
        ELSE IF time.some
             THEN (IF east_opt(n.tm_utcoff)
                   THEN Single(from_utc(date, time, n.tm_utcoff))
                   ELSE ResultPanic)
             ELSE ResultNone

----------------------------------------------------------------------------
(* Inputs                                                                  *)

MaxZoneHours == 1

\* the zone configurations the operating system may hold
Zones == {FixedZone(k) : k \in -MaxZoneHours..MaxZoneHours} \cup {DstZone(1)}

\* years of the naive inputs: the ends of the range SYSTEMTIME holds, a
\* common and a leap year, and years beyond 16 bits on either side
NaiveYears == {1601, 2023, 2024, 30827, 67560, -63513}
NaiveDays == {<<1, 1>>, <<2, 29>>, <<3, 1>>, <<11, 1>>, <<12, 31>>}
\* hour, minute, second, nanosecond; a nanosecond count of 10^9 or more is
\* the leap second as NaiveTime keeps it
NaiveTimes == {<<0, 0, 0, 0>>, <<1, 30, 0, 0>>, <<2, 30, 0, 999999999>>,
               <<23, 59, 59, 1999999999>>, <<23, 59, 60, 0>>,
               <<23, 59, 60, 999999999>>}

\* the naive date-times handed to naive_to_local: valid dates, a second
\* field of 0..60
NaiveInputs ==
    UNION {{[year |-> y, month |-> md[1], day |-> md[2], hour |-> t[1],
             minute |-> t[2], second |-> t[3], nanosecond |-> t[4]] :
                md \in {x \in NaiveDays : x[2] <= DaysInMonth(y, x[1])},
                t \in NaiveTimes} : y \in NaiveYears}

----------------------------------------------------------------------------
(* State                                                                   *)

VARIABLES
    d,          \* naive_to_local: the argument d
    local,      \* naive_to_local: the argument local
    tz,         \* the zone configuration the operating system holds now
    tzChanged,  \* that configuration changed during the call
    pc,         \* the operating-system call naive_to_local makes next
    tm,         \* the Tm under construction
    sec,        \* Timespec.sec
    sys,        \* the WinSystemTime handed from one call to the next
    local_sec,  \* update_from_seconds: local_sec
    result,     \* what naive_to_local returned
    failure,    \* the operating-system call that failed, and where
    leapToOs,   \* a second field of 60 was handed to the operating system
    fn,         \* pure functions: the function applied last
    arg,        \* its argument
    out         \* its value

flow == <<d, local, tz, tzChanged, pc, tm, sec, sys, local_sec, result, failure,
          leapToOs>>
pure == <<fn, arg, out>>
vars == <<d, local, tz, tzChanged, pc, tm, sec, sys, local_sec, result, failure,
          leapToOs, fn, arg, out>>

NoFailure == [call |-> "none", in |-> "none"]

Init ==
    /\ d \in NaiveInputs
    /\ local \in BOOLEAN
    /\ tz \in Zones
    /\ tzChanged = FALSE
    /\ pc = "start"
    /\ tm = DefaultTm
    /\ sec = Zeros(4)
    /\ sys = NewSystemTime
    /\ local_sec = Zeros(4)
    /\ result = NoResult
    /\ failure = NoFailure
    /\ leapToOs = FALSE
    /\ fn = "none" /\ arg = <<>> /\ out = <<>>

----------------------------------------------------------------------------
(* naive_to_local, one action for each operating-system call               *)

\* the call returns r
Return(r) == result' = r /\ pc' = "done"

\* every Err unwrapped
OnError_unwrap(in) == ResultPanic

\* what naive_to_local returns when an operating-system call fails inside
\* function `in`: the Err of utc_to_time and of local_to_time becomes
\* LocalResult::None, the Err of update_from_seconds is unwrapped
OnError(in) ==
    IF in \in {"utc_to_time", "local_to_time"} THEN ResultNone ELSE ResultPanic

\* operating-system call `call` fails inside function `in`
Fails(call, in) ==
    /\ failure' = [call |-> call, in |-> in]
    /\ Return(OnError(in))

\* as_unix_seconds in a build with or without overflow checks
UnixSeconds(ft, then) ==
    LET u == as_unix_seconds(ft)
    IN  \E checks \in BOOLEAN :
            IF u.overflow /\ checks
            THEN Return(ResultPanic) /\ UNCHANGED sec
            ELSE sec' = u.sec /\ pc' = then /\ UNCHANGED result

\* local = false: tm.utc_to_time()
UtcToTime ==
    /\ pc = "start" /\ ~local
    /\ tm' = NaiveTm(d, local)
    /\ LET st == as_system_time(tm')
           r  == SystemTimeToFileTime(st)
       IN  /\ leapToOs' = (leapToOs \/ st.wSecond = 60)
           /\ \E spurious \in BOOLEAN :
                IF r.ok /\ ~spurious
                THEN UnixSeconds(r.ft, "as_system_time") /\ UNCHANGED failure
                ELSE Fails("calendar_to_tick_count", "utc_to_time")
                     /\ UNCHANGED sec
    /\ UNCHANGED <<d, local, tz, tzChanged, sys, local_sec, pure>>

\* local = true: tm.local_to_time(), WinSystemTime::from_local_time
LocalToTime_from_local_time ==
    /\ pc = "start" /\ local
    /\ tm' = NaiveTm(d, local)
    /\ LET st == as_system_time(tm')
       IN  /\ leapToOs' = (leapToOs \/ st.wSecond = 60)
           /\ \E r \in TzSpecificLocalTimeToSystemTime(tz, st), spurious \in BOOLEAN :
                IF r.ok /\ ~spurious
                THEN /\ sys' = r.st
                     /\ pc' = "as_file_time"
                     /\ UNCHANGED <<result, failure>>
                ELSE /\ Fails("local_to_calendar", "local_to_time")
                     /\ UNCHANGED sys
    /\ UNCHANGED <<d, local, tz, tzChanged, sec, local_sec, pure>>

\* local = true: tm.local_to_time(), utc.as_file_time()
LocalToTime_as_file_time ==
    /\ pc = "as_file_time"
    /\ LET r == SystemTimeToFileTime(sys)
       IN  /\ leapToOs' = (leapToOs \/ sys.wSecond = 60)
           /\ \E spurious \in BOOLEAN :
                IF r.ok /\ ~spurious
                THEN UnixSeconds(r.ft, "as_system_time") /\ UNCHANGED failure
                ELSE Fails("calendar_to_tick_count", "local_to_time")
                     /\ UNCHANGED sec
    /\ UNCHANGED <<d, local, tz, tzChanged, tm, sys, local_sec, pure>>

\* Tm::from_timespec: Self::default(), then update_from_seconds up to
\* filetime.as_system_time()
UpdateFromSeconds_as_system_time ==
    /\ pc = "as_system_time"
    /\ tm' = DefaultTm
    /\ LET f == from_seconds(sec)
           r == FileTimeToSystemTime(f.ft)
       IN  \E checks \in BOOLEAN, spurious \in BOOLEAN :
             IF f.overflow /\ checks
             THEN Return(ResultPanic) /\ UNCHANGED <<sys, failure>>
             ELSE IF r.ok /\ ~spurious
             THEN /\ sys' = r.st
                  /\ pc' = "as_time_zone_specific"
                  /\ UNCHANGED <<result, failure>>
             ELSE /\ Fails("tick_count_to_calendar", "update_from_seconds")
                  /\ UNCHANGED sys
    /\ UNCHANGED <<d, local, tz, tzChanged, sec, local_sec, leapToOs, pure>>

\* update_from_seconds: utc.as_time_zone_specific() and
\* update_from_system_time(&local)
UpdateFromSeconds_as_time_zone_specific ==
    /\ pc = "as_time_zone_specific"
    /\ leapToOs' = (leapToOs \/ sys.wSecond = 60)
    /\ LET r == SystemTimeToTzSpecificLocalTime(tz, sys)
       IN  \E spurious \in BOOLEAN :
             IF r.ok /\ ~spurious
             THEN /\ sys' = r.st
                  /\ tm' = update_from_system_time(tm, r.st)
                  /\ pc' = "local_as_file_time"
                  /\ UNCHANGED <<result, failure>>
             ELSE /\ Fails("calendar_to_local", "update_from_seconds")
                  /\ UNCHANGED <<sys, tm>>
    /\ UNCHANGED <<d, local, tz, tzChanged, sec, local_sec, pure>>

\* update_from_seconds: local.as_file_time() and as_unix_seconds()
UpdateFromSeconds_as_file_time ==
    /\ pc = "local_as_file_time"
    /\ leapToOs' = (leapToOs \/ sys.wSecond = 60)
    /\ LET r == SystemTimeToFileTime(sys)
           u == as_unix_seconds(r.ft)
       IN  \E checks \in BOOLEAN, spurious \in BOOLEAN :
             IF r.ok /\ ~spurious
             THEN IF u.overflow /\ checks
                  THEN Return(ResultPanic) /\ UNCHANGED <<local_sec, failure>>
                  ELSE /\ local_sec' = u.sec
                       /\ pc' = "time_zone_info"
                       /\ UNCHANGED <<result, failure>>
             ELSE /\ Fails("calendar_to_tick_count", "update_from_seconds")
                  /\ UNCHANGED local_sec
    /\ UNCHANGED <<d, local, tz, tzChanged, tm, sec, sys, pure>>

\* the offset taken with the wrong sign
WithOffset_negated(t, z) ==
    LET utcoff == AsI32(Sub(sec, local_sec))
    IN  [t EXCEPT !.tm_utcoff = utcoff,
                  !.tm_isdst = IF utcoff = -60 * (z.Bias + z.StandardBias) THEN 0 ELSE 1]

\* the Tm that update_from_seconds leaves once WinTimeZoneInfo::new()
\* returned zone z
WithOffset(t, z) ==
    LET utcoff == AsI32(Sub(local_sec, sec))
    IN  [t EXCEPT !.tm_utcoff = utcoff,
                  !.tm_isdst = IF utcoff = -60 * (z.Bias + z.StandardBias) THEN 0 ELSE 1]

\* update_from_seconds from WinTimeZoneInfo::new() on, the rest of
\* from_timespec, and naive_to_local to its end
UpdateFromSeconds_time_zone_info ==
    /\ pc = "time_zone_info"
    /\ \E spurious \in BOOLEAN :
         IF ~spurious
         THEN /\ tm' = [WithOffset(tm, tz) EXCEPT !.tm_nsec = d.nanosecond]
              /\ Return(tm_to_datetime(tm'))
              /\ UNCHANGED failure
         ELSE /\ Fails("current_time_zone", "update_from_seconds")
              /\ UNCHANGED tm
    /\ UNCHANGED <<d, local, tz, tzChanged, sec, sys, local_sec, leapToOs, pure>>

\* the user or an administrator reconfigures the zone while the call runs
TzChange ==
    /\ pc \notin {"start", "done"}
    /\ tz' \in Zones \ {tz}
    /\ tzChanged' = TRUE
    /\ UNCHANGED <<d, local, pc, tm, sec, sys, local_sec, result, failure, leapToOs, pure>>

Next ==
    \/ UtcToTime
    \/ LocalToTime_from_local_time
    \/ LocalToTime_as_file_time
    \/ UpdateFromSeconds_as_system_time
    \/ UpdateFromSeconds_as_time_zone_specific
    \/ UpdateFromSeconds_as_file_time
    \/ UpdateFromSeconds_time_zone_info
    \/ TzChange

Spec == Init /\ [][Next]_vars

----------------------------------------------------------------------------
(* The pure functions, each applied once to an input on its own            *)

MaxYearSpan == 1
MaxDelta == 3

\* century years and the years around a common and a leap year
YdayYears == {1900, 2000, 2100} \cup ((2023 - MaxYearSpan)..(2024 + MaxYearSpan))

I64_MAX == <<Limb - 1, Limb - 1, Limb - 1, HalfLimb - 1>>
I64_MIN == <<0, 0, 0, HalfLimb>>

\* the seconds whose tick counts are 0 and the last one an i64 holds
FirstTickSecond == Trunc(Neg(Mul(FromNat(116444736, 6), 100)), 4)
LastTickSecond ==
    DivU(Sub(I64_MAX, Trunc(HECTONANOSEC_TO_UNIX_EPOCH, 4)), HECTONANOSECS_IN_SEC)[1]

Nearby(base, step, rs) ==
    {Add(base, FromInt(k * step + r, 4)) : k \in -MaxDelta..MaxDelta, r \in rs}

SecondsInputs ==
    UNION {Nearby(b, 1, {0}) :
             b \in {Zeros(4), FromInt(1700000000, 4), FromInt(-1700000000, 4),
                    FirstTickSecond, LastTickSecond, I64_MAX, I64_MIN}}

\* tick counts around tick 0 (and so around 2^64), the Unix epoch and 2^63,
\* on and off whole seconds
TickInputs ==
    UNION {Nearby(b, HECTONANOSECS_IN_SEC, {0, 1, HECTONANOSECS_IN_SEC - 1}) :
             b \in {Zeros(4), Trunc(HECTONANOSEC_TO_UNIX_EPOCH, 4), I64_MIN}}

Value(v) == [panic |-> FALSE, val |-> v]
Panicked == [panic |-> TRUE, val |-> 0]

InitPure ==
    /\ d = [year |-> 1970, month |-> 1, day |-> 1, hour |-> 0, minute |-> 0,
            second |-> 0, nanosecond |-> 0]
    /\ local = FALSE
    /\ tz = FixedZone(0)
    /\ tzChanged = FALSE
    /\ pc = "done"
    /\ tm = DefaultTm
    /\ sec = Zeros(4)
    /\ sys = NewSystemTime
    /\ local_sec = Zeros(4)
    /\ result = NoResult
    /\ failure = NoFailure
    /\ leapToOs = FALSE
    /\ fn = "none" /\ arg = <<>> /\ out = Value(0)

\* yday(year, month, day) on a date of the calendar
Call_yday ==
    /\ fn = "none"
    /\ \E y \in YdayYears, m \in 1..12 :
         \E day \in 1..DaysInMonth(y, m) :
            /\ fn' = "yday"
            /\ arg' = <<y, m, day>>
            /\ out' = Value(yday(y, m, day))
    /\ UNCHANGED flow

\* WinFileTime::from_seconds(sec), in a build with or without overflow checks
Call_from_seconds ==
    /\ fn = "none"
    /\ \E s \in SecondsInputs, checks \in BOOLEAN :
         LET f == from_seconds(s)
         IN  /\ fn' = "from_seconds"
             /\ arg' = s
             /\ out' = IF f.overflow /\ checks THEN Panicked ELSE Value(f.ft)
    /\ UNCHANGED flow

\* the operating system fills a WinFileTime through mut_inner()
Call_mut_inner ==
    /\ fn = "none"
    /\ \E t \in TickInputs :
         /\ fn' = "mut_inner"
         /\ arg' = <<>>
         /\ out' = Value(FileTimeOf(t))
    /\ UNCHANGED flow

\* as_unix_seconds() on the WinFileTime made last; arg keeps the WinFileTime
\* and what it was made from
Call_as_unix_seconds ==
    /\ fn \in {"from_seconds", "mut_inner"}
    /\ ~out.panic
    /\ \E checks \in BOOLEAN :
         LET u == as_unix_seconds(out.val)
         IN  /\ fn' = "as_unix_seconds"
             /\ arg' = [ft |-> out.val, by |-> fn, of |-> arg]
             /\ out' = IF u.overflow /\ checks THEN Panicked ELSE Value(u.sec)
    /\ UNCHANGED flow

NextPure ==
    \/ Call_yday
    \/ Call_from_seconds
    \/ Call_mut_inner
    \/ Call_as_unix_seconds

SpecPure == InitPure /\ [][NextPure]_vars

----------------------------------------------------------------------------
(* Properties                                                              *)

\* the naive input as a point of the time line, and the inputs SYSTEMTIME
\* can hold
NaivePoint(dt) ==
    <<DaysFrom1601(dt.year, dt.month, dt.day),
      dt.hour * 3600 + dt.minute * 60 + dt.second>>
InOsRange(dt) == dt.year \in 1601..30827

\* C1: for every valid date of a non-leap year, yday gives the conventional
\* zero-based day count: the days of all earlier months plus (day - 1).
\* Stated for the years that are no multiple of 4, which are non-leap under
\* the Gregorian rule and under yday's own rule alike.
C1_YdayConventional ==
    (fn = "yday" /\ arg[1] % 4 # 0)
        => out.val = OrdinalDay0(arg[1], arg[2], arg[3])

\* C9: the Tm that update_from_system_time fills from a calendar record of the
\* operating system has tm_yday in 0..365, in leap years too.
C9_YdayInRange == tm.tm_yday \in 0..365

\* the seconds s with 0 <= s * 10^7 + 116_444_736_000_000_000 <= i64::MAX
InTickRange(s) ==
    LET v == Add(Mul(Ext(s, 6), HECTONANOSECS_IN_SEC), HECTONANOSEC_TO_UNIX_EPOCH)
    IN  ~IsNeg(v) /\ Fits(v, 4)

\* C7: for every seconds value whose tick count lies in the tick range,
\* from_seconds does not overflow and as_unix_seconds of its WinFileTime gives
\* the seconds back.
C7_SecondsRoundTrip ==
    /\ (fn = "from_seconds" /\ InTickRange(arg)) => ~out.panic
    /\ (fn = "as_unix_seconds" /\ arg.by = "from_seconds" /\ InTickRange(arg.of))
           => (~out.panic /\ out.val = arg.of)

\* a round trip of a second before 1970 whose tick count is in range
C7_Witness ==
    /\ fn = "as_unix_seconds" /\ arg.by = "from_seconds"
    /\ InTickRange(arg.of) /\ IsNeg(arg.of)
    /\ ~out.panic

\* C8: for every tick count t, as_unix_seconds gives
\* floor((t - 116_444_736_000_000_000) / 10_000_000), also for t before the
\* Unix epoch and off a whole second.  Stated for the tick counts below 2^63,
\* which are the ones the operating system produces.
C8_FloorDivides ==
    (fn = "as_unix_seconds" /\ ~IsNeg(as_u64(arg.ft)))
        => /\ ~out.panic
           /\ out.val = Trunc(DivFloor(Sub(as_u64(arg.ft) \o <<0, 0>>,
                                           HECTONANOSEC_TO_UNIX_EPOCH),
                                       HECTONANOSECS_IN_SEC), 4)

\* C10: no input whose year is negative or greater than 65535 makes
\* naive_to_local return Single: the year handed to the operating system is
\* the input's year, which SYSTEMTIME cannot hold, so the result is None.
C10_NoYearWrap ==
    (pc = "done" /\ d.year \notin 0..65535) => result.kind # "Single"

\* C3: an input whose second field is 60 is normalized before any
\* operating-system call: with local = false no record with a second of 60
\* reaches the operating system, and the call returns Single with second 59
\* and nanosecond n + 1_000_000_000.
C3_LeapSecondNormalizedFirst ==
    (d.second = 60 /\ ~local /\ InOsRange(d))
        => /\ ~leapToOs
           /\ (pc = "done" /\ failure = NoFailure)
                 => /\ result.kind = "Single"
                    /\ LocalFields(result).second = 59
                    /\ result.frac = d.nanosecond + 1000000000

\* C4: in a zone k hours east of UTC without daylight saving that does not
\* change during the call, every naive_to_local(d, true) that returns Single
\* has offset 3600 * k and the instant d - 3600 * k.
C4_FixedZoneOffset ==
    (pc = "done" /\ local /\ result.kind = "Single" /\ ~HasDst(tz) /\ ~tzChanged)
        => /\ result.offset = -60 * tz.Bias
           /\ result.utc = Shift(NaivePoint(d), 60 * tz.Bias)

\* C2 as claimed: for every valid d in the range of the operating system and
\* local = false, in any zone, the call returns Single and the fields read
\* from the aware result are those of d.
C2_FieldsReadBack ==
    (pc = "done" /\ ~local /\ InOsRange(d) /\ d.second <= 59 /\ failure = NoFailure)
        => /\ result.kind = "Single"
           /\ LocalFields(result) = d

\* C2 as amended: for every valid d in the range of the operating system and
\* local = false, in any zone, a call in which no operating-system call fails
\* returns Single, the instant of the result read as a UTC date and time is d
\* field by field, nanosecond included, and the fields of the aware result
\* itself are those of d moved by the offset of the result, so those of d
\* when that offset is zero.
C2_InstantReadBack ==
    (pc = "done" /\ ~local /\ InOsRange(d) /\ d.second <= 59 /\ failure = NoFailure)
        => /\ result.kind = "Single"
           /\ UtcFields(result) = d
           /\ LocalFields(result)
                  = Fields(Shift(NaivePoint(d), result.offset), d.nanosecond)
           /\ (result.offset = 0 => LocalFields(result) = d)

\* a UTC input with nanoseconds resolved in a zone away from UTC
C2_Witness ==
    /\ pc = "done" /\ ~local /\ InOsRange(d) /\ d.second <= 59
    /\ failure = NoFailure
    /\ result.kind = "Single" /\ result.offset # 0 /\ d.nanosecond # 0

\* C5 as claimed: only a rejected calendar-to-tick-count conversion becomes
\* None, wherever it occurs; a failure of any other operating-system call
\* never becomes None.
C5_OnlyTickConversionDowngraded ==
    /\ failure.call = "calendar_to_tick_count" => result.kind = "None"
    /\ failure.call \notin {"none", "calendar_to_tick_count"} => result.kind # "None"

\* C5 as amended: a failure of an operating-system call becomes None exactly
\* when it occurs while the input is converted to epoch seconds (in
\* utc_to_time or local_to_time, local_to_calendar included); a failure of any
\* call of the instant-to-local procedure (update_from_seconds) is a hard
\* failure and never None.
C5_DowngradedByPlace ==
    /\ failure.in \in {"utc_to_time", "local_to_time"} => result.kind = "None"
    /\ failure.in = "update_from_seconds" => result.kind = "Panic"

\* the calendar-to-tick-count conversion fails in update_from_seconds
C5_Witness ==
    /\ failure = [call |-> "calendar_to_tick_count", in |-> "update_from_seconds"]
    /\ result.kind = "Panic"

\* C6: a call of naive_to_local that returns a value returns Single or None,
\* never Ambiguous, also for a local time that a fall-back transition repeats.
C6_NeverAmbiguous ==
    /\ result.kind # "Ambiguous"
    /\ pc = "done" => result.kind \in {"Single", "None", "Panic"}

\* a repeated local time resolved under the zone with daylight saving
C6_Witness ==
    /\ pc = "done" /\ local /\ ~tzChanged /\ InOsRange(d)
    /\ InOverlap(tz, as_system_time(NaiveTm(d, local)))
    /\ result.kind = "Single"

====
